---------------------------- MODULE Spec2Model ----------------------------
(* A model of the style cascade (src/src/style.rs) and of the block layout *)
(* engine (src/src/layout/mod.rs, src/src/layout/properties.rs) of browsah. *)
(*                                                                          *)
(* f64 quantities are held as integers counting half pixels, so 10px is 20  *)
(* and 0.5px is 1; every sum, difference and halving the layout code        *)
(* performs on the modelled inputs is exact in that unit.                   *)
EXTENDS Integers, Sequences, FiniteSets, TLC

VARIABLES
  elements,   \* style.rs: node -> [kind, name, attributes] (never mutated)
  contents,   \* style.rs: StyledElement::contents, node -> sequence of nodes
  styles,     \* style.rs: StyledElement::styles, node -> StyleMap
  sheet,      \* the rulesets handed to apply_styles
  next_rule,  \* position of the `for r in styles` loop of apply_styles
  pass,       \* which call of apply_styles is running (1 or 2)
  first,      \* the tree as the first call of apply_styles left it
  map,        \* one node's StyleMap, driven by insert calls alone
  calls,      \* the insert calls made on map so far, in order
  lbox,       \* layout/mod.rs: one LayoutBox being laid out as a block
  container,  \* layout/mod.rs: the Dimensions of its containing block
  stage,      \* how far layout has come on lbox
  metrics,    \* display.rs: what the rasterizer measures for each text
  invocation, \* a call of a function of style.rs on its own: name, arguments
  returned    \* what that call returned, once it has

vars ==
  <<elements, contents, styles, sheet, next_rule, pass, first, map, calls,
    lbox, container, stage, metrics, invocation, returned>>

cascadeVars == <<elements, contents, styles, sheet, next_rule, pass, first>>
insertVars == <<map, calls>>
blockVars == <<lbox, container, stage, metrics>>
callVars == <<invocation, returned>>

-----------------------------------------------------------------------------
(* css::Value *)

Keyword(k) == [t |-> "Keyword", k |-> k]
Number(n) == [t |-> "Number", n |-> n]
Length(n, u) == [t |-> "Length", n |-> n, unit |-> u]
Percentage(n) == [t |-> "Percentage", n |-> n]
Color(c) == [t |-> "Color", c |-> c]
\* MultiValue: a sequence of (Option<Operator>, Value)
Part(op, v) == [op |-> op, v |-> v]
Multiple(parts) == [t |-> "Multiple", parts |-> parts]

\* Option<T>
Some(x) == <<x>>
None == <<>>
unwrap_or(o, d) == IF o = None THEN d ELSE o[1]

\* the product of two f64 held in half units
Mul(a, b) == (a * b) \div 2

\* Value::to_px, which layout calls as try_to_px
to_px(v, font_size) ==
  CASE v.t = "Number" -> Some(v.n)
    [] v.t = "Length" /\ v.unit = "Px" -> Some(v.n)
    [] v.t = "Length" /\ v.unit = "Em" -> Some(Mul(v.n, font_size))
    [] v.t = "Percentage" -> Some(Mul(v.n, font_size))
    [] OTHER -> None

is_width(v) ==
  IF v.t = "Keyword" THEN v.k \in {"thin", "medium", "thick"}
  ELSE v.t \in {"Number", "Length"}

is_border_style(v) ==
  IF v.t = "Keyword"
  THEN v.k \in { "none", "hidden", "dotted", "dashed", "solid", "double",
                 "groove", "ridge", "inset", "outset" }
  ELSE FALSE

\* no Function value is modelled
is_color(v) == v.t = "Color"

is_space_separated(mv) ==
  \A i \in 1..Len(mv.parts) : mv.parts[i].op \in {"None", "Space"}

new_space_seperated(values) ==
  Multiple([i \in 1..Len(values) |->
              Part(IF i = 1 THEN "None" ELSE "Space", values[i])])

\* a whole number of pixels in the half-pixel unit
Px(n) == 2 * n

Declaration(n, v) == [name |-> n, value |-> v]

-----------------------------------------------------------------------------
(* css::Selector, css::SimpleSelector *)

Type(n) == [k |-> "Type", v |-> n]
Universal == [k |-> "Universal", v |-> ""]
Attribute(n) == [k |-> "Attribute", v |-> n]
Class(n) == [k |-> "Class", v |-> n]
PseudoClass(n) == [k |-> "PseudoClass", v |-> n]
ID(n) == [k |-> "ID", v |-> n]

Simple(s) == [kind |-> "Simple", simple |-> s]
Compound(ss) == [kind |-> "Compound", sels |-> ss]
Combinator(l, c, r) == [kind |-> "Combinator", l |-> l, c |-> c, r |-> r]

Ruleset(sels, decls) == [selectors |-> sels, declarations |-> decls]

-----------------------------------------------------------------------------
(* Specificity: (attributes, ids, classes, elements) *)

SpecValue(s) == s[1] * 1000 + s[2] * 100 + s[3] * 10 + s[4]

\* PartialOrd::partial_cmp / Ord::cmp compare the weighted values
SpecGe(s, t) == SpecValue(s) >= SpecValue(t)

SpecAdd(s, t) == <<s[1] + t[1], s[2] + t[2], s[3] + t[3], s[4] + t[4]>>

\* SimpleSpecificity counting pseudo-classes for nothing
SimpleSpecificity_without_pseudo(sel) ==
  CASE sel.k = "Type" -> <<0, 0, 0, 1>>
    [] sel.k = "Universal" -> <<0, 0, 0, 0>>
    [] sel.k = "Attribute" -> <<1, 0, 0, 0>>
    [] sel.k = "Class" -> <<0, 0, 1, 0>>
    [] sel.k = "PseudoClass" -> <<0, 0, 0, 0>>
    [] sel.k = "ID" -> <<0, 1, 0, 0>>

SimpleSpecificity(sel) ==
  CASE sel.k = "Type" -> <<0, 0, 0, 1>>
    [] sel.k = "Universal" -> <<0, 0, 0, 0>>
    [] sel.k = "Attribute" -> <<1, 0, 0, 0>>
    [] sel.k = "Class" -> <<0, 0, 1, 0>>
    [] sel.k = "PseudoClass" -> <<0, 0, 1, 0>>
    [] sel.k = "ID" -> <<0, 1, 0, 0>>

RECURSIVE SpecSum(_, _)
\* Sum for Specificity: fold from (0,0,0,0), here over sels[i..]
SpecSum(sels, i) ==
  IF i > Len(sels) THEN <<0, 0, 0, 0>>
  ELSE SpecAdd(SimpleSpecificity(sels[i]), SpecSum(sels, i + 1))

RECURSIVE Specificity(_)
Specificity(sel) ==
  CASE sel.kind = "Simple" -> SimpleSpecificity(sel.simple)
    [] sel.kind = "Compound" -> SpecSum(sel.sels, 1)
    [] sel.kind = "Combinator" -> SpecAdd(Specificity(sel.l), Specificity(sel.r))

-----------------------------------------------------------------------------
(* StyleMap and StyledElement::insert *)

EmptyMap == [q \in {} |-> 0]

Put(sm, key, value, spec) ==
  [q \in DOMAIN sm \cup {key} |->
     IF q = key THEN [value |-> value, spec |-> spec] ELSE sm[q]]

\* insert with the comparison `spec > existing`: a tie keeps the stored entry
insert_strict(sm, key, value, spec) ==
  IF key \in DOMAIN sm
  THEN IF SpecValue(spec) > SpecValue(sm[key].spec)
       THEN Put(sm, key, value, spec) ELSE sm
  ELSE Put(sm, key, value, spec)

insert(sm, key, value, spec) ==
  IF key \in DOMAIN sm
  THEN IF SpecGe(spec, sm[key].spec) THEN Put(sm, key, value, spec) ELSE sm
  ELSE Put(sm, key, value, spec)

\* StyleMap::get
Get(sm, key) == sm[key].value
Has(sm, key) == key \in DOMAIN sm

-----------------------------------------------------------------------------
(* Selector matching *)

\* An attribute string is held as its sequence of words and whitespace runs;
\* a whitespace run is the piece " ".
split_whitespace(str) == SelectSeq(str, LAMBDA piece : piece # " ")

InSeq(x, s) == \E i \in 1..Len(s) : s[i] = x

\* the attribute string equals the plain word w
StrEq(str, w) == str = <<w>>

\* has_class comparing the whole attribute, as id_is does
has_class_whole(n, class) ==
  IF "class" \in DOMAIN elements[n].attributes
  THEN StrEq(elements[n].attributes["class"], class)
  ELSE FALSE

has_class(n, class) ==
  IF "class" \in DOMAIN elements[n].attributes
  THEN InSeq(class, split_whitespace(elements[n].attributes["class"]))
  ELSE FALSE

id_is(n, id) ==
  IF "id" \in DOMAIN elements[n].attributes
  THEN StrEq(elements[n].attributes["id"], id)
  ELSE FALSE

does_simple_selector_apply(n, sel) ==
  CASE sel.k = "Type" -> elements[n].name = sel.v
    [] sel.k = "Universal" -> TRUE
    [] sel.k = "Attribute" -> FALSE
    [] sel.k = "Class" -> has_class(n, sel.v)
    [] sel.k = "PseudoClass" -> FALSE
    [] sel.k = "ID" -> id_is(n, sel.v)

\* does_rule_apply with `all` in place of `any`
does_rule_apply_all(n, sel) ==
  CASE sel.kind = "Simple" -> does_simple_selector_apply(n, sel.simple)
    [] sel.kind = "Compound" ->
         \A i \in 1..Len(sel.sels) : does_simple_selector_apply(n, sel.sels[i])
    [] sel.kind = "Combinator" -> FALSE

does_rule_apply(n, sel) ==
  CASE sel.kind = "Simple" -> does_simple_selector_apply(n, sel.simple)
    [] sel.kind = "Compound" ->
         \E i \in 1..Len(sel.sels) : does_simple_selector_apply(n, sel.sels[i])
    [] sel.kind = "Combinator" -> FALSE

-----------------------------------------------------------------------------
(* The cascade: apply_rule_unconditionally, apply_rule, apply_styles *)

INHERITED ==
  { "azimuth", "border-collapse", "border-spacing", "caption-side", "color",
    "cursor", "direction", "elevation", "empty-cells", "font-family",
    "font-size", "font-style", "font-variant", "font-weight", "font",
    "letter-spacing", "line-height", "list-style-image",
    "list-style-position", "list-style-type", "list-style", "orphans",
    "pitch-range", "pitch", "quotes", "richness", "speak-header",
    "speak-numeral", "speak-punctuation", "speak", "speech-rate", "stress",
    "text-align", "text-indent", "text-transform", "visibility",
    "voice-family", "volume", "white-space", "widows", "word-spacing" }

IsElement(n) == elements[n].kind = "Element"

RECURSIVE InsertAll(_, _, _, _)
\* `for decl in declarations { self.insert(name, value, spec) }`
InsertAll(sm, decls, spec, i) ==
  IF i > Len(decls) THEN sm
  ELSE InsertAll(insert(sm, decls[i].name, decls[i].value, spec),
                 decls, spec, i + 1)

RECURSIVE apply_rule_unconditionally(_, _, _, _, _, _)
RECURSIVE InheritInto(_, _, _, _, _, _)
\* sty: node -> StyleMap; cs: node -> children. Gives the new sty.
apply_rule_unconditionally(sty, cs, n, declarations, spec, inherit_all) ==
  LET own == [sty EXCEPT ![n] = InsertAll(sty[n], declarations, spec, 1)]
      inherited ==
        IF inherit_all THEN declarations
        ELSE SelectSeq(declarations, LAMBDA d : d.name \in INHERITED)
  IN  InheritInto(own, cs, cs[n], inherited, spec, 1)

\* InheritInto handing the declarations down at the specificity (0,0,0,0)
InheritInto_unstamped(sty, cs, kids, inherited, spec, i) ==
  IF i > Len(kids) THEN sty
  ELSE IF IsElement(kids[i])
  THEN InheritInto(
         apply_rule_unconditionally(sty, cs, kids[i], inherited,
                                    <<0, 0, 0, 0>>, TRUE),
         cs, kids, inherited, spec, i + 1)
  ELSE InheritInto(sty, cs, kids, inherited, spec, i + 1)

\* `self.contents.iter_mut().for_each(..)`: element children only
InheritInto(sty, cs, kids, inherited, spec, i) ==
  IF i > Len(kids) THEN sty
  ELSE IF IsElement(kids[i])
  THEN InheritInto(
         apply_rule_unconditionally(sty, cs, kids[i], inherited, spec, TRUE),
         cs, kids, inherited, spec, i + 1)
  ELSE InheritInto(sty, cs, kids, inherited, spec, i + 1)

\* `decl.name == "display" && decl.value == Value::Keyword("none")`
HasDisplayNone(declarations) ==
  \E i \in 1..Len(declarations) :
     /\ declarations[i].name = "display"
     /\ declarations[i].value = Keyword("none")

\* the selectors of the list that select node n, as indices
Matching(n, selectors) ==
  { i \in 1..Len(selectors) : does_rule_apply(n, selectors[i]) }

\* Iterator::max: the last of the equally maximal elements
\* MaxSpecificity over the whole selector list, matching or not
MaxSpecificity_of_all(selectors, matching) ==
  LET best == CHOOSE i \in 1..Len(selectors) :
                \A j \in 1..Len(selectors) :
                   \/ SpecValue(Specificity(selectors[j]))
                        < SpecValue(Specificity(selectors[i]))
                   \/ /\ SpecValue(Specificity(selectors[j]))
                           = SpecValue(Specificity(selectors[i]))
                      /\ j <= i
  IN  Specificity(selectors[best])

MaxSpecificity(selectors, matching) ==
  LET best == CHOOSE i \in matching :
                \A j \in matching :
                   \/ SpecValue(Specificity(selectors[j]))
                        < SpecValue(Specificity(selectors[i]))
                   \/ /\ SpecValue(Specificity(selectors[j]))
                           = SpecValue(Specificity(selectors[i]))
                      /\ j <= i
  IN  Specificity(selectors[best])

RemoveAt(s, i) == SubSeq(s, 1, i - 1) \o SubSeq(s, i + 1, Len(s))

RECURSIVE RemoveForward(_, _, _)
\* removal in ascending index order: every removal shifts the later indices
RemoveForward(s, remove, j) ==
  IF j > Len(remove) THEN s
  ELSE IF remove[j] <= Len(s)
  THEN RemoveForward(RemoveAt(s, remove[j]), remove, j + 1)
  ELSE RemoveForward(s, remove, j + 1)

remove_forward(s, remove) == RemoveForward(s, remove, 1)

RECURSIVE RemoveBackward(_, _, _)
RemoveBackward(s, remove, j) ==
  IF j < 1 THEN s
  ELSE RemoveBackward(RemoveAt(s, remove[j]), remove, j - 1)

\* `remove.into_iter().rev().for_each(|i| self.contents.remove(i))`
remove_all(s, remove) == RemoveBackward(s, remove, Len(remove))

RECURSIVE apply_rule(_, _, _, _)
RECURSIVE CheckChildren(_, _, _, _, _, _, _)
\* Gives [styles, contents, remove]: remove is the function's return value.
apply_rule(sty, cs, n, style) ==
  LET matching == Matching(n, style.selectors) IN
  IF matching # {} /\ HasDisplayNone(style.declarations)
  THEN [styles |-> sty, contents |-> cs, remove |-> TRUE]
  ELSE
    LET sty1 ==
          IF matching # {}
          THEN apply_rule_unconditionally(
                 sty, cs, n, style.declarations,
                 MaxSpecificity(style.selectors, matching), FALSE)
          ELSE sty
        r == CheckChildren(sty1, cs, n, cs[n], style, 1, <<>>)
    IN  [styles |-> r.styles,
         contents |-> [r.contents EXCEPT ![n] = remove_all(cs[n], r.remove)],
         remove |-> FALSE]

\* the loop over self.contents: each element child applies the ruleset to
\* itself; the indices of those that return true are collected
CheckChildren(sty, cs, n, kids, style, i, remove) ==
  IF i > Len(kids) THEN [styles |-> sty, contents |-> cs, remove |-> remove]
  ELSE IF IsElement(kids[i])
  THEN LET r == apply_rule(sty, cs, kids[i], style)
       IN  CheckChildren(r.styles, r.contents, n, kids, style, i + 1,
                         IF r.remove THEN Append(remove, i) ELSE remove)
  ELSE CheckChildren(sty, cs, n, kids, style, i + 1, remove)

-----------------------------------------------------------------------------
(* The documents and stylesheets the cascade is run on *)

\* at most this many rulesets in a stylesheet
MaxRules == 2

NoAttributes == [a \in {} |-> <<>>]
Attrs(a, str) == [b \in {a} |-> str]

Element(name, attributes) ==
  [kind |-> "Element", name |-> name, attributes |-> attributes]
Text(str) == [kind |-> "Text", name |-> str, attributes |-> NoAttributes]

\* <1> <2> <5/> "text 6" </2> <3/> <4/> </1>
Nodes == 1..6
InitialContents ==
  [n \in Nodes |-> IF n = 1 THEN <<2, 3, 4>> ELSE IF n = 2 THEN <<5, 6>> ELSE <<>>]

Documents ==
  { [n \in Nodes |->
       IF n = 6 THEN Text("t")
       ELSE Element(nm[n], IF n = x THEN Attrs("id", <<"x">>) ELSE NoAttributes)] :
    nm \in { f \in [1..5 -> {"div", "p"}] : f[3] = "p" }, x \in {0, 1, 2} }

SelectorLists ==
  { <<Simple(Type("div"))>>, <<Simple(Type("p"))>>, <<Simple(ID("x"))>>,
    <<Simple(Type("div")), Simple(ID("x"))>> }

DeclarationLists ==
  { <<Declaration("color", Keyword("red"))>>,
    <<Declaration("color", Keyword("green")), Declaration("width", Length(Px(10), "Px")),
      Declaration("display", Keyword("block"))>>,
    <<Declaration("color", Keyword("blue")), Declaration("display", Keyword("none"))>> }

Rulesets == { Ruleset(s, d) : s \in SelectorLists, d \in DeclarationLists }

RECURSIVE SeqsOf(_, _)
\* the sequences over S of length 1..n
SeqsOf(S, n) ==
  IF n = 0 THEN {}
  ELSE LET shorter == SeqsOf(S, n - 1)
       IN  { <<x>> : x \in S } \cup shorter
             \cup { Append(q, x) : q \in shorter, x \in S }

Idle == <<>>

Tree == [contents |-> contents, styles |-> styles]

Init ==
  /\ elements \in Documents
  /\ contents = InitialContents
  /\ styles = [n \in Nodes |-> EmptyMap]
  /\ sheet \in SeqsOf(Rulesets, MaxRules)
  /\ next_rule = 1
  /\ pass = 1
  /\ first = Idle
  /\ map = Idle
  /\ calls = Idle
  /\ lbox = Idle /\ container = Idle /\ stage = Idle /\ metrics = Idle
  /\ invocation = Idle /\ returned = Idle

\* one iteration of `for r in styles { self.apply_rule(r); }` on the root;
\* the value apply_rule returns is dropped
ApplyRule ==
  /\ next_rule <= Len(sheet)
  /\ LET r == apply_rule(styles, contents, 1, sheet[next_rule])
     IN  /\ styles' = r.styles
         /\ contents' = r.contents
  /\ next_rule' = next_rule + 1
  /\ UNCHANGED <<elements, sheet, pass, first>>
  /\ UNCHANGED <<insertVars, blockVars, callVars>>

\* apply_styles is called once more with the same rulesets
ApplyStylesAgain ==
  /\ next_rule > Len(sheet)
  /\ pass = 1
  /\ first' = Tree
  /\ pass' = 2
  /\ next_rule' = 1
  /\ UNCHANGED <<elements, contents, styles, sheet>>
  /\ UNCHANGED <<insertVars, blockVars, callVars>>

Next == ApplyRule \/ ApplyStylesAgain

Spec == Init /\ [][Next]_vars

-----------------------------------------------------------------------------
(* insert on its own: any sequence of calls on one node *)

\* at most this many insert calls
MaxCalls == 3

InsertKeys == {"color", "width"}
InsertValues == {Keyword("red"), Keyword("blue")}
InsertSpecs == { <<0, 0, 0, 0>>, <<0, 0, 0, 1>>, <<0, 1, 0, 0>>, <<0, 0, 10, 0>> }

InitInsert ==
  /\ map = EmptyMap
  /\ calls = <<>>
  /\ elements = Idle /\ contents = Idle /\ styles = Idle /\ sheet = Idle
  /\ next_rule = 0 /\ pass = 0 /\ first = Idle
  /\ lbox = Idle /\ container = Idle /\ stage = Idle /\ metrics = Idle
  /\ invocation = Idle /\ returned = Idle

Insert ==
  /\ Len(calls) < MaxCalls
  /\ \E key \in InsertKeys, value \in InsertValues, spec \in InsertSpecs :
       /\ map' = insert(map, key, value, spec)
       /\ calls' = Append(calls, [key |-> key, value |-> value, spec |-> spec])
  /\ UNCHANGED <<cascadeVars, blockVars, callVars>>

NextInsert == Insert

SpecInsert == InitInsert /\ [][NextInsert]_vars

-----------------------------------------------------------------------------
(* layout/properties.rs: margins, paddings and borders of a StyleMap *)

Sides(top, right, bottom, left) ==
  [top |-> top, right |-> right, bottom |-> bottom, left |-> left]

\* (top, right, bottom, left) of a shorthand value, if it has that form.
\* A Multiple is never empty (unreachable!).
to_padding_sizes(v) ==
  CASE v.t \in {"Number", "Length"} -> Some(Sides(v, v, v, v))
    [] v.t = "Keyword" /\ v.k = "auto" -> Some(Sides(v, v, v, v))
    [] v.t = "Multiple" ->
         IF ~is_space_separated(v) THEN None
         ELSE LET a == v.parts IN
              CASE Len(a) = 1 -> Some(Sides(a[1].v, a[1].v, a[1].v, a[1].v))
                [] Len(a) = 2 -> Some(Sides(a[1].v, a[2].v, a[1].v, a[2].v))
                [] Len(a) = 3 -> Some(Sides(a[1].v, a[2].v, a[3].v, a[2].v))
                [] Len(a) = 4 -> Some(Sides(a[1].v, a[2].v, a[3].v, a[4].v))
                [] OTHER -> None
    [] OTHER -> None

to_margin_sizes(v) == to_padding_sizes(v)
to_border_sides(v) == to_padding_sizes(v)

ZeroSides == Sides(Number(0), Number(0), Number(0), Number(0))

\* `if let Some(x) = style.get(name) { side = x.clone() }`
Override(style, name, side) == IF Has(style, name) THEN Get(style, name) ELSE side

get_padding(style) ==
  LET padding == IF Has(style, "padding")
                 THEN unwrap_or(to_padding_sizes(Get(style, "padding")), ZeroSides)
                 ELSE ZeroSides
  IN  Sides(Override(style, "padding-top", padding.top),
            Override(style, "padding-right", padding.right),
            Override(style, "padding-bottom", padding.bottom),
            Override(style, "padding-left", padding.left))

get_margins(style) ==
  LET margin == IF Has(style, "margin")
                THEN unwrap_or(to_margin_sizes(Get(style, "margin")), ZeroSides)
                ELSE ZeroSides
  IN  Sides(Override(style, "margin-top", margin.top),
            Override(style, "margin-right", margin.right),
            Override(style, "margin-bottom", margin.bottom),
            Override(style, "margin-left", margin.left))

BorderSide(width, style, color) ==
  [width |-> width, style |-> style, color |-> color]

\* impl Default for BorderSide
DefaultBorderSide == BorderSide(Number(0), Number(0), Color("black"))

Values(mv) == [i \in 1..Len(mv.parts) |-> mv.parts[i].v]

to_border_side(val) ==
  IF val.t = "Multiple"
  THEN IF ~is_space_separated(val) THEN DefaultBorderSide
       ELSE LET v == Values(val) IN
            CASE Len(v) = 1 ->
                   BorderSide(v[1], DefaultBorderSide.style, DefaultBorderSide.color)
              [] Len(v) = 2 -> BorderSide(v[1], v[2], DefaultBorderSide.color)
              [] OTHER -> BorderSide(v[1], v[2], v[3])
  ELSE BorderSide(val, DefaultBorderSide.style, DefaultBorderSide.color)

\* the values from the first one that passes the test on, while they pass
\* it; passes[i] tells whether values[i] does
Run(values, passes) ==
  LET hits == { i \in 1..Len(values) : passes[i] } IN
  IF hits = {} THEN None
  ELSE LET start == CHOOSE i \in hits : \A j \in hits : i <= j
           stop == CHOOSE e \in start..Len(values) :
                     /\ \A j \in start..e : passes[j]
                     /\ e = Len(values) \/ ~passes[e + 1]
       IN  Some(new_space_seperated(SubSeq(values, start, stop)))

\* (width, style, color) of a `border` value
process_border(val) ==
  IF val.t = "Multiple" /\ is_space_separated(val)
  THEN LET values == Values(val)
           each == 1..Len(values)
       IN  <<Run(values, [i \in each |-> is_width(values[i])]),
             Run(values, [i \in each |-> is_border_style(values[i])]),
             Run(values, [i \in each |-> is_color(values[i])])>>
  ELSE <<None, None, None>>

\* one component (width, style or color) of the four sides, taken from the
\* `border` property when it gives that component in a usable form
FromBorder(style, part, side, default) ==
  IF ~Has(style, "border") THEN default
  ELSE LET found == process_border(Get(style, "border"))[part] IN
       IF found = None THEN default
       ELSE LET sides == to_border_sides(found[1]) IN
            IF sides = None THEN default ELSE sides[1][side]

get_border(style) ==
  LET shorthand(side) ==
        BorderSide(FromBorder(style, 1, side, DefaultBorderSide.width),
                   FromBorder(style, 2, side, DefaultBorderSide.style),
                   FromBorder(style, 3, side, DefaultBorderSide.color))
      one(side) ==
        IF Has(style, "border-" \o side)
        THEN to_border_side(Get(style, "border-" \o side))
        ELSE shorthand(side)
  IN  [left |-> one("left"), right |-> one("right"),
       top |-> one("top"), bottom |-> one("bottom")]

-----------------------------------------------------------------------------
(* layout/mod.rs: Dimensions and the block width and position *)

Rect(x, y, width, height) == [x |-> x, y |-> y, width |-> width, height |-> height]
EdgeSizes(left, right, top, bottom) ==
  [left |-> left, right |-> right, top |-> top, bottom |-> bottom]

\* Dimensions::default()
DefaultDimensions ==
  [content |-> Rect(0, 0, 0, 0), margin |-> EdgeSizes(0, 0, 0, 0),
   border |-> EdgeSizes(0, 0, 0, 0), padding |-> EdgeSizes(0, 0, 0, 0)]

expanded_by(r, edge) ==
  Rect(r.x - edge.left, r.y - edge.top,
       r.width + edge.left + edge.right, r.height + edge.top + edge.bottom)

padding_box(d) == expanded_by(d.content, d.padding)
border_box(d) == expanded_by(padding_box(d), d.border)
margin_box(d) == expanded_by(border_box(d), d.margin)

\* `x as isize`: the whole pixels of x, rounded toward zero
as_isize(x) == IF x >= 0 THEN x \div 2 ELSE -((-x) \div 2)
\* `i as f64`
as_f64(i) == 2 * i

Auto == Keyword("auto")

LayoutBox(box_type, style, box_content_type, font_size) ==
  [dimensions |-> DefaultDimensions, box_type |-> box_type, contents |-> <<>>,
   style |-> style, box_content_type |-> box_content_type,
   font_size |-> font_size, border |-> None]

Normal == [t |-> "Normal"]
TextContent(str) == [t |-> "Text", s |-> str]

\* the outcome of a function that may panic
Done(b) == [panic |-> FALSE, box |-> b]
Panic == [panic |-> TRUE]

\* the match on (width == auto, margin_left == auto, margin_right == auto)
\* in which the case of three concrete values leaves margin_right alone
resolve_keeping_margin(width, margin_left, margin_right, underflow, adjusted_margin_right) ==
  [width |-> IF width = Auto
             THEN IF underflow >= 0 THEN Number(as_f64(underflow)) ELSE Number(0)
             ELSE width,
   margin_left |-> IF width # Auto /\ margin_left = Auto
                   THEN IF margin_right = Auto THEN Number(underflow)
                        ELSE Number(as_f64(underflow))
                   ELSE margin_left,
   margin_right |-> IF width = Auto
                    THEN IF underflow >= 0 THEN margin_right
                         ELSE adjusted_margin_right
                    ELSE IF margin_right = Auto
                    THEN IF margin_left = Auto THEN Number(underflow)
                         ELSE Number(as_f64(underflow))
                    ELSE margin_right]

\* the match on (width == auto, margin_left == auto, margin_right == auto);
\* underflow is an isize, underflow / 2.0 in half units is underflow itself
resolve(width, margin_left, margin_right, underflow, adjusted_margin_right) ==
  CASE width # Auto /\ margin_left # Auto /\ margin_right # Auto ->
         [width |-> width, margin_left |-> margin_left,
          margin_right |-> adjusted_margin_right]
    [] width # Auto /\ margin_left # Auto /\ margin_right = Auto ->
         [width |-> width, margin_left |-> margin_left,
          margin_right |-> Number(as_f64(underflow))]
    [] width # Auto /\ margin_left = Auto /\ margin_right # Auto ->
         [width |-> width, margin_left |-> Number(as_f64(underflow)),
          margin_right |-> margin_right]
    [] width = Auto ->
         IF underflow >= 0
         THEN [width |-> Number(as_f64(underflow)), margin_left |-> margin_left,
               margin_right |-> margin_right]
         ELSE [width |-> Number(0), margin_left |-> margin_left,
               margin_right |-> adjusted_margin_right]
    [] width # Auto /\ margin_left = Auto /\ margin_right = Auto ->
         [width |-> width, margin_left |-> Number(underflow),
          margin_right |-> Number(underflow)]

\* get_rasterized_layout is the font library's; metrics holds, for a text,
\* the right edge of its rightmost glyph (None without glyphs) and its height
calculate_text_block_width(b, cont) ==
  LET layout == metrics[b.box_content_type.s]
  IN  [b EXCEPT
         !.dimensions.padding.left = 0,
         !.dimensions.padding.right = 0,
         !.dimensions.border.left = 0,
         !.dimensions.border.right = 0,
         !.dimensions.margin.left = 0,
         !.dimensions.content.width = unwrap_or(layout.right, 0) + Px(2),
         !.dimensions.content.height = layout.height]

\* the end of calculate_block_width: each unwrap() panics on a value that
\* is no number of pixels
SetHorizontal(b, border, r, padding) ==
  LET px(v) == to_px(v, b.font_size)
      final == <<r.width, padding.left, padding.right, border.left.width,
                 border.right.width, r.margin_left, r.margin_right>>
  IN  IF \E i \in 1..Len(final) : px(final[i]) = None
      THEN Panic
      ELSE Done([b EXCEPT
             !.border = Some(border),
             !.dimensions.content.width = px(r.width)[1],
             !.dimensions.padding.left = px(padding.left)[1],
             !.dimensions.padding.right = px(padding.right)[1],
             !.dimensions.border.left = px(border.left.width)[1],
             !.dimensions.border.right = px(border.right.width)[1],
             !.dimensions.margin.left = px(r.margin_left)[1],
             !.dimensions.margin.right = px(r.margin_right)[1]])

\* from `let underflow` on
Underflow(b, cont, width, margin_left, margin_right, border, padding, total_width) ==
  LET underflow == as_isize(cont.content.width) - as_isize(total_width)
      adjusted_margin_right ==
        Number(as_f64(as_isize(unwrap_or(to_px(margin_right, b.font_size), 0))
                      + underflow))
  IN  SetHorizontal(b, border,
                    resolve(width, margin_left, margin_right, underflow,
                            adjusted_margin_right),
                    padding)

\* `if width != &auto && total_width > container.content.width { .. }`
ForceMargins(b, cont, width, margins, border, padding, total_width) ==
  LET over == width # Auto /\ total_width > cont.content.width
  IN  Underflow(b, cont, width,
                IF over /\ margins.left = Auto THEN Number(0) ELSE margins.left,
                IF over /\ margins.right = Auto THEN Number(0) ELSE margins.right,
                border, padding, total_width)

\* the sum of the seven values, one that is no number of pixels counting 0
TotalWidth(b, cont, width, margins, border, padding) ==
  LET px0(v) == unwrap_or(to_px(v, b.font_size), 0)
  IN  ForceMargins(b, cont, width, margins, border, padding,
                   px0(margins.left) + px0(margins.right)
                   + px0(border.left.width) + px0(border.right.width)
                   + px0(padding.left) + px0(padding.right) + px0(width))

calculate_block_width(b, cont) ==
  IF b.box_content_type.t = "Text" THEN Done(calculate_text_block_width(b, cont))
  ELSE TotalWidth(b, cont,
                  IF Has(b.style, "width") THEN Get(b.style, "width") ELSE Auto,
                  get_margins(b.style), get_border(b.style), get_padding(b.style))

\* calculate_block_position on the margins, border and padding of the style
SetVertical(b, containing_block, margins, border, padding) ==
  LET px(v) == to_px(v, b.font_size)
      edges == <<margins.top, margins.bottom, border.top.width,
                 border.bottom.width, padding.top, padding.bottom>>
  IN  IF \E i \in 1..Len(edges) : px(edges[i]) = None
      THEN Panic
      ELSE Done([b EXCEPT
             !.dimensions.margin.top = px(margins.top)[1],
             !.dimensions.margin.bottom = px(margins.bottom)[1],
             !.dimensions.border.top = px(border.top.width)[1],
             !.dimensions.border.bottom = px(border.bottom.width)[1],
             !.dimensions.padding.top = px(padding.top)[1],
             !.dimensions.padding.bottom = px(padding.bottom)[1],
             !.dimensions.content.x =
                containing_block.content.x + b.dimensions.margin.left
                + b.dimensions.border.left + b.dimensions.padding.left,
             !.dimensions.content.y =
                containing_block.content.height + containing_block.content.y
                + px(margins.top)[1] + px(border.top.width)[1]
                + px(padding.top)[1]])

calculate_block_position(b, containing_block) ==
  SetVertical(b, containing_block, get_margins(b.style), get_border(b.style),
              get_padding(b.style))

\* calculate_block_height, were a box without `height` to get height 0
calculate_block_height_or_zero(b) ==
  [b EXCEPT !.dimensions.content.height =
     IF Has(b.style, "height")
     THEN unwrap_or(to_px(Get(b.style, "height"), b.font_size), 0)
     ELSE 0]

calculate_block_height(b) ==
  IF Has(b.style, "height")
  THEN [b EXCEPT !.dimensions.content.height =
                    unwrap_or(to_px(Get(b.style, "height"), b.font_size), 0)]
  ELSE b

-----------------------------------------------------------------------------
(* layout_block on one childless, non-text block box *)

\* build_layout_tree: the font size of a box without a Number `font-size`
DefaultFontSize == Px(16)

\* a property left out, or declared with one of the values
Optional(name, values) ==
  { <<>> } \cup { <<Declaration(name, v)>> : v \in values }

\* the StyleMap a cascade of these declarations leaves
StyleOf(decls) == InsertAll(EmptyMap, decls, <<0, 0, 0, 0>>, 1)

Solid == Keyword("solid")

\* the styles tried; 100.5px and 0.5px are lengths that are not whole pixels
BlockStyles ==
  { StyleOf(w \o ml \o mr \o m \o pl \o pr \o pt \o bl \o blw \o bs) :
      w \in Optional("width",
              { Auto, Length(Px(100), "Px"), Length(Px(300), "Px"),
                Length(Px(100) + 1, "Px"), Length(Px(2), "Em") }),
      ml \in Optional("margin-left",
               { Auto, Length(Px(10), "Px"), Length(-Px(10), "Px") }),
      mr \in Optional("margin-right", { Auto, Length(Px(10), "Px") }),
      m \in Optional("margin", { new_space_seperated(<<Number(0), Auto>>), Auto }),
      pl \in Optional("padding-left", { Length(Px(5), "Px"), Length(1, "Px") }),
      pr \in Optional("padding-right", { Length(Px(5), "Px") }),
      pt \in Optional("padding-top", { Auto }),
      bl \in Optional("border-left",
               { new_space_seperated(<<Length(Px(2), "Px"), Solid>>) }),
      blw \in Optional("border-left-width", { Length(Px(5), "Px") }),
      bs \in Optional("border",
               { new_space_seperated(<<Length(Px(1), "Px"), Solid,
                                       Color("black")>>) }) }

\* the content boxes of the containing blocks tried
Containers ==
  { [DefaultDimensions EXCEPT !.content = Rect(0, 0, Px(200), 0)],
    [DefaultDimensions EXCEPT !.content = Rect(Px(7), Px(3), Px(30), Px(4))] }

InitBlock ==
  /\ lbox \in { LayoutBox("Block", style, Normal, DefaultFontSize) :
                  style \in BlockStyles }
  /\ container \in Containers
  /\ stage = "width"
  /\ elements = Idle /\ contents = Idle /\ styles = Idle /\ sheet = Idle
  /\ next_rule = 0 /\ pass = 0 /\ first = Idle
  /\ map = Idle /\ calls = Idle
  /\ invocation = Idle /\ returned = Idle
  /\ metrics = Idle

\* a step of layout_block: to the next step, or to the panic of an unwrap
Step(result, then, abort) ==
  /\ stage' = IF result.panic THEN abort ELSE then
  /\ lbox' = IF result.panic THEN lbox ELSE result.box
  /\ UNCHANGED <<container, metrics, cascadeVars, insertVars, callVars>>

CalculateBlockWidth ==
  /\ stage = "width"
  /\ Step(calculate_block_width(lbox, container), "position", "panic in width")

CalculateBlockPosition ==
  /\ stage = "position"
  /\ Step(calculate_block_position(lbox, container), "height",
          "panic in position")

\* layout_block_children has no child to lay out here
CalculateBlockHeight ==
  /\ stage = "height"
  /\ Step(Done(calculate_block_height(lbox)), "done", "panic in height")

NextBlock ==
  \/ CalculateBlockWidth
  \/ CalculateBlockPosition
  \/ CalculateBlockHeight

SpecBlock == InitBlock /\ [][NextBlock]_vars

-----------------------------------------------------------------------------
(* layout/mod.rs: the box tree of a Styled Tree, and its layout *)

\* impl From<&Value> for BoxType, with FromStr
BoxTypeFrom(v) ==
  IF v.t = "Keyword"
  THEN CASE v.k = "block" -> "Block"
         [] v.k = "inline" -> "Inline"
         [] OTHER -> "Block"
  ELSE "Block"

\* `.styles.get("display").map(|d| d.into()).unwrap_or(BoxType::Block)`
BoxTypeOf(style) ==
  IF Has(style, "display") THEN BoxTypeFrom(Get(style, "display")) ELSE "Block"

\* LayoutBox::new
NewLayoutBox(box_type, font_size) ==
  LayoutBox(box_type, EmptyMap, Normal, font_size)

Push(b, child) == [b EXCEPT !.contents = Append(@, child)]

\* `b.get_inline_container().contents.push(child)`
\* PushInline with a new Anonymous box for every inline child
PushInline_always_new(b, child) ==
  IF b.box_type \in {"Inline", "Anonymous"} THEN Push(b, child)
  ELSE Push(b, Push(NewLayoutBox("Anonymous", b.font_size), child))

PushInline(b, child) ==
  IF b.box_type \in {"Inline", "Anonymous"} THEN Push(b, child)
  ELSE LET reuse == /\ Len(b.contents) > 0
                    /\ b.contents[Len(b.contents)].box_type = "Anonymous"
           with == IF reuse THEN b
                   ELSE Push(b, NewLayoutBox("Anonymous", b.font_size))
           last == Len(with.contents)
       IN  [with EXCEPT !.contents[last] = Push(@, child)]

RECURSIVE build_layout_tree(_)
RECURSIVE BuildChildren(_, _, _, _)
\* the box tree of the styled element at node root
build_layout_tree(root) ==
  LET font_size ==
        IF Has(styles[root], "font-size")
             /\ Get(styles[root], "font-size").t = "Number"
        THEN Get(styles[root], "font-size").n
        ELSE DefaultFontSize
      root_box ==
        LayoutBox(BoxTypeOf(styles[root]), styles[root], Normal, font_size)
  IN  BuildChildren(root, root_box, font_size, 1)

\* `for child in &root.contents`, from the i-th child on
BuildChildren(root, root_box, font_size, i) ==
  IF i > Len(contents[root]) THEN root_box
  ELSE LET child == contents[root][i]
           box_type == BoxTypeOf(styles[child])
           the_box ==
             IF IsElement(child) THEN build_layout_tree(child)
             ELSE LayoutBox(box_type, styles[root],
                            TextContent(elements[child].name), font_size)
           pushed ==
             CASE box_type = "Block" -> Push(root_box, the_box)
               [] box_type = "Inline" -> PushInline(root_box, the_box)
               [] OTHER -> root_box
       IN  BuildChildren(root, pushed, font_size, i + 1)

calculate_font_size(s, parent_size) ==
  IF ~Has(s, "font-size") THEN parent_size
  ELSE LET v == Get(s, "font-size") IN
       CASE v.t = "Number" -> v.n
         [] v.t = "Percentage" -> Mul(v.n, parent_size)
         [] v.t = "Length" /\ v.unit = "Px" -> v.n
         [] v.t = "Length" /\ v.unit = "Em" -> Mul(v.n, parent_size)
         [] OTHER -> parent_size

RECURSIVE layout(_, _)
RECURSIVE LayoutChildren(_, _)

\* the closure, were the parent to grow by the child's content height alone
LaidOutChild_content_height(b, i, c) ==
  IF c.panic THEN Panic
  ELSE LayoutChildren(
         [b EXCEPT !.contents[i] = c.box,
                   !.dimensions.content.height =
                      @ + c.box.dimensions.content.height],
         i + 1)

\* the closure of layout_block_children, after the i-th child's layout gave c
LaidOutChild(b, i, c) ==
  IF c.panic THEN Panic
  ELSE LayoutChildren(
         [b EXCEPT !.contents[i] = c.box,
                   !.dimensions.content.height =
                      @ + margin_box(c.box.dimensions).height],
         i + 1)

\* `self.contents.iter_mut().for_each(..)`, from the i-th child on
LayoutChildren(b, i) ==
  IF i > Len(b.contents) THEN Done(b)
  ELSE LaidOutChild(b, i, layout(b.contents[i], b.dimensions))

layout_block_children(b) == LayoutChildren(b, 1)

\* layout_block from its fourth, third and second statement on
HeightStep(c) ==
  IF c.panic THEN Panic ELSE Done(calculate_block_height(c.box))
ChildrenStep(p) ==
  IF p.panic THEN Panic ELSE HeightStep(layout_block_children(p.box))
PositionStep(w, cont) ==
  IF w.panic THEN Panic ELSE ChildrenStep(calculate_block_position(w.box, cont))

layout_block(b, cont) == PositionStep(calculate_block_width(b, cont), cont)

\* `for child in self.contents.iter_mut() { child.font_size = .. }`
SetChildFontSizes(r) ==
  IF r.panic THEN Panic
  ELSE Done([r.box EXCEPT !.contents =
         [i \in 1..Len(r.box.contents) |->
            [r.box.contents[i] EXCEPT !.font_size =
               calculate_font_size(r.box.contents[i].style, r.box.font_size)]]])

\* a box that is not a Block reaches `todo!()`
layout(b, cont) ==
  IF b.box_type # "Block" THEN Panic
  ELSE SetChildFontSizes(layout_block(b, cont))

\* create_layout: the containing block a viewport of this width makes
Viewport(width) == [DefaultDimensions EXCEPT !.content = Rect(0, 0, width, 0)]

-----------------------------------------------------------------------------
(* create_layout on a Styled Tree *)

\* <1> <2> <5/> </2> <3/> <4/> </1>, where 3 and 5 may be text
LayoutNodes == 1..5
LayoutContents ==
  [n \in LayoutNodes |->
     IF n = 1 THEN <<2, 3, 4>> ELSE IF n = 2 THEN <<5>> ELSE <<>>]

LayoutDocuments ==
  { [n \in LayoutNodes |->
       IF n \in texts THEN Text("t") ELSE Element("div", NoAttributes)] :
    texts \in SUBSET {3, 5} }

\* the styles the cascade may have left on an element
LayoutStyles ==
  { EmptyMap,
    StyleOf(<<Declaration("display", Keyword("inline"))>>),
    StyleOf(<<Declaration("width", Length(Px(100), "Px")),
              Declaration("height", Length(Px(20), "Px")),
              Declaration("margin-top", Length(Px(5), "Px")),
              Declaration("padding-left", Length(Px(5), "Px"))>>),
    StyleOf(<<Declaration("width", Length(Px(100), "Px")),
              Declaration("margin", new_space_seperated(<<Number(0), Auto>>))>>),
    StyleOf(<<Declaration("margin-top", Length(-Px(30), "Px"))>>),
    StyleOf(<<Declaration("height", Auto)>>),
    StyleOf(<<Declaration("font-size", Length(Px(2), "Em"))>>),
    StyleOf(<<Declaration("font-size", Length(Px(20), "Px")),
              Declaration("width", Length(Px(2), "Em"))>>) }

\* apply_rule_unconditionally never reaches a text node: its StyleMap is empty
StyledTrees(els) ==
  { sty \in [LayoutNodes -> LayoutStyles] :
      \A n \in LayoutNodes : els[n].kind = "Text" => sty[n] = EmptyMap }

TextMetrics ==
  { [s \in {"t"} |-> [right |-> None, height |-> 0]],
    [s \in {"t"} |-> [right |-> Some(Px(30) + 1), height |-> Px(12)]] }

ViewportWidths == { Px(200) }

InitLayout ==
  /\ elements \in LayoutDocuments
  /\ contents = LayoutContents
  /\ styles \in StyledTrees(elements)
  /\ container \in { Viewport(w) : w \in ViewportWidths }
  /\ metrics \in TextMetrics
  /\ lbox = Idle
  /\ stage = "build"
  /\ sheet = Idle /\ next_rule = 0 /\ pass = 0 /\ first = Idle
  /\ map = Idle /\ calls = Idle
  /\ invocation = Idle /\ returned = Idle

\* `let mut root_box = build_layout_tree(root);`
BuildLayoutTree ==
  /\ stage = "build"
  /\ stage' = "layout"
  /\ lbox' = build_layout_tree(1)
  /\ UNCHANGED <<container, metrics, cascadeVars, insertVars, callVars>>

\* `root_box.layout(container);`
Layout ==
  /\ stage = "layout"
  /\ Step(layout(lbox, container), "done", "panic in layout")

NextLayout == BuildLayoutTree \/ Layout

SpecLayout == InitLayout /\ [][NextLayout]_vars

-----------------------------------------------------------------------------
(* Calls of the selector and specificity functions of style.rs on their own *)

\* Ord::cmp and PartialOrd::partial_cmp: the order of the weighted values
cmp(s, t) ==
  IF SpecValue(s) < SpecValue(t) THEN "Less"
  ELSE IF SpecValue(s) = SpecValue(t) THEN "Equal" ELSE "Greater"

\* derive(PartialEq, Eq): the same four counters
eq(s, t) == s[1] = t[1] /\ s[2] = t[2] /\ s[3] = t[3] /\ s[4] = t[4]

\* the head of apply_rule: the greatest specificity among the selectors of
\* the list that select node n, None when none does
match_specificity(n, selectors) ==
  IF Matching(n, selectors) = {} THEN None
  ELSE Some(MaxSpecificity(selectors, Matching(n, selectors)))

\* one element, with or without a class and an id attribute
CallElements ==
  { [n \in {1} |-> Element(name, class @@ id)] :
      name \in {"div", "p"},
      class \in { NoAttributes } \cup
                { Attrs("class", c) :
                    c \in { <<"wide">>, <<"a", " ", "wide">>, <<"wider">> } },
      id \in { NoAttributes } \cup
             { Attrs("id", i) : i \in { <<"x">>, <<"x", " ", "y">> } } }

SimpleSelectors ==
  { Type("div"), Type("p"), Universal, Attribute("id"), Class("wide"),
    PseudoClass("hover"), ID("x") }

\* at most this many simple selectors in a compound selector
MaxCompound == 2

CallSelectors ==
  { Simple(s) : s \in SimpleSelectors }
  \cup { Compound(ss) : ss \in SeqsOf(SimpleSelectors, MaxCompound) \cup { <<>> } }
  \cup { Combinator(Simple(Type("div")), ">", Simple(Class("wide"))),
         Combinator(Simple(Universal), " ", Simple(Type("p"))),
         Combinator(Combinator(Simple(ID("x")), " ", Simple(Type("p"))), ">",
                    Compound(<<Type("div"), Class("wide")>>)) }

\* the counters tried in comparisons: ten classes weigh as much as one id
Counters == {0, 1, 10}

\* css::ColorValue
ColorValue(r, g, b, a) == [r |-> r, g |-> g, b |-> b, a |-> a]

\* `(d as f32 * fac) as u8`, fac counted in halves: the product cut toward
\* zero and kept within u8
scaled(d, fac) ==
  IF (d * fac) \div 2 > 255 THEN 255 ELSE (d * fac) \div 2

\* u8 subtraction, wrapping as in a release build; a debug build panics on
\* underflow, which no call made here produces (b <= a throughout)
sub_u8(a, b) == (a - b) % 256

interpolate_val(from, to, fac) ==
  IF from = to THEN from
  ELSE IF from < to THEN sub_u8(to, scaled(to - from, fac))
  ELSE sub_u8(from, scaled(from - to, fac))

interpolate_color(from, to, fac) ==
  IF from = to THEN from
  ELSE ColorValue(interpolate_val(from.r, to.r, fac),
                  interpolate_val(from.g, to.g, fac),
                  interpolate_val(from.b, to.b, fac),
                  interpolate_val(from.a, to.a, fac))

\* the channel values and the factors 0.0, 0.5 and 1.0 tried
Channels == {0, 100, 255}
Colors ==
  { ColorValue(r, g, b, a) :
      r \in Channels, g \in Channels, b \in Channels, a \in Channels }
Factors == {0, 1, 2}

InitCall ==
  /\ \/ /\ elements \in CallElements
        /\ \E f \in {"does_rule_apply", "apply_rule"} :
             invocation \in { [f |-> f, selector |-> sel] : sel \in CallSelectors }
     \/ /\ elements = Idle
        /\ \/ invocation \in { [f |-> "Specificity::from", selector |-> sel] :
                                 sel \in CallSelectors }
           \/ invocation \in { [f |-> "cmp", s |-> s, t |-> t] :
                                 s \in [1..4 -> Counters], t \in [1..4 -> Counters] }
           \/ invocation \in { [f |-> "interpolate_color",
                                  from |-> from, to |-> to, fac |-> fac] :
                                 from \in Colors, to \in Colors, fac \in Factors }
  /\ returned = None
  /\ contents = Idle /\ styles = Idle /\ sheet = Idle
  /\ next_rule = 0 /\ pass = 0 /\ first = Idle
  /\ map = Idle /\ calls = Idle
  /\ lbox = Idle /\ container = Idle /\ stage = Idle /\ metrics = Idle

\* the call returns value
Return(f, value) ==
  /\ invocation.f = f
  /\ returned = None
  /\ returned' = Some(value)
  /\ UNCHANGED <<invocation, cascadeVars, insertVars, blockVars>>

DoesRuleApply ==
  Return("does_rule_apply", does_rule_apply(1, invocation.selector))

\* apply_rule up to `if let Some(spec) = ..`, on a ruleset of one selector
MatchSpecificity ==
  Return("apply_rule", match_specificity(1, <<invocation.selector>>))

SpecificityFrom ==
  Return("Specificity::from", Specificity(invocation.selector))

\* s.cmp(&t) and s == t
Compare ==
  Return("cmp", [ordering |-> cmp(invocation.s, invocation.t),
                 equal |-> eq(invocation.s, invocation.t)])

InterpolateColor ==
  Return("interpolate_color",
         interpolate_color(invocation.from, invocation.to, invocation.fac))

NextCall ==
  \/ DoesRuleApply
  \/ MatchSpecificity
  \/ SpecificityFrom
  \/ Compare
  \/ InterpolateColor

SpecCall == InitCall /\ [][NextCall]_vars

-----------------------------------------------------------------------------
(* Notions the properties of the cascade are stated with *)

RECURSIVE Below(_, _)
\* the nodes of the subtrees hanging under n
Below(cs, n) ==
  UNION { {cs[n][i]} \cup Below(cs, cs[n][i]) : i \in 1..Len(cs[n]) }

\* the nodes of the tree rooted at node 1
Live(cs) == {1} \cup Below(cs, 1)

Ancestors(n) == { a \in Nodes : n \in Below(InitialContents, a) }

Properties == {"color", "width", "display"}

Matches(n, r) == IsElement(n) /\ Matching(n, r.selectors) # {}

RuleSpecificity(n, r) == MaxSpecificity(r.selectors, Matching(n, r.selectors))

Declares(r, p) ==
  \E i \in 1..Len(r.declarations) : r.declarations[i].name = p

\* the value the ruleset gives p: its last declaration of p
DeclaredValue(r, p) ==
  LET last == CHOOSE i \in 1..Len(r.declarations) :
                /\ r.declarations[i].name = p
                /\ \A j \in (i + 1)..Len(r.declarations) :
                      r.declarations[j].name # p
  IN  r.declarations[last].value

\* apply_styles has returned
Finished == next_rule > Len(sheet)

\* C1: an element directly matched by two rulesets that declare the same
\* property with specificity values s1 < s2, no other ruleset and no ancestor
\* contributing that property, resolves to the value of the ruleset of higher
\* specificity, whichever of the two is applied first.
C1_HigherSpecificityWins ==
  Finished =>
    \A n \in Live(contents) : \A p \in Properties :
    \A i \in 1..Len(sheet) : \A j \in 1..Len(sheet) :
      ( /\ IsElement(n) /\ i # j
        /\ Matches(n, sheet[i]) /\ Declares(sheet[i], p)
        /\ Matches(n, sheet[j]) /\ Declares(sheet[j], p)
        /\ SpecValue(RuleSpecificity(n, sheet[i]))
             < SpecValue(RuleSpecificity(n, sheet[j]))
        /\ \A k \in 1..Len(sheet) :
             Declares(sheet[k], p) =>
               /\ k \notin {i, j} => ~Matches(n, sheet[k])
               /\ \A a \in Ancestors(n) : ~Matches(a, sheet[k]) )
      => /\ Has(styles[n], p)
         /\ Get(styles[n], p) = DeclaredValue(sheet[j], p)

\* C3: a ruleset that matches an element and none of its descendants leaves
\* the element with every declared property, and every descendant element
\* with the declared properties of the inheritable list and with none of the
\* others.
C3_InheritedSubsetReachesDescendants ==
  Finished =>
    \A k \in 1..Len(sheet) : \A n \in Live(contents) :
      ( /\ Matches(n, sheet[k])
        /\ \A d \in Below(InitialContents, n) : ~Matches(d, sheet[k]) )
      => \A p \in Properties : Declares(sheet[k], p) =>
           /\ Has(styles[n], p)
           /\ \A d \in Below(contents, n) : IsElement(d) =>
                IF p \in INHERITED
                THEN Has(styles[d], p)
                ELSE (\A o \in 1..Len(sheet) : o # k => ~Declares(sheet[o], p))
                       => ~Has(styles[d], p)

\* C4: applying a ruleset that declares display: none removes every matched
\* non-root element with its subtree; what stays of a parent's children is
\* the non-matching ones in their original order.
C4_DisplayNoneRemovesEveryMatch ==
  [][ (next_rule <= Len(sheet) /\ HasDisplayNone(sheet[next_rule].declarations))
      => /\ \A n \in Live(contents) \ {1} :
              Matches(n, sheet[next_rule]) => n \notin Live(contents')
         /\ \A n \in Live(contents') :
              contents'[n] =
                SelectSeq(contents[n],
                          LAMBDA c : ~Matches(c, sheet[next_rule])) ]_vars

\* C5: a second apply_styles with the same rulesets changes nothing: the same
\* nodes remain and every node keeps the same value for every property.
C5_SecondApplicationChangesNothing ==
  (pass = 2 /\ Finished) =>
    /\ Live(contents) = Live(first.contents)
    /\ \A n \in Live(contents) :
         /\ contents[n] = first.contents[n]
         /\ DOMAIN styles[n] = DOMAIN first.styles[n]
         /\ \A p \in DOMAIN styles[n] :
              Get(styles[n], p) = Get(first.styles[n], p)

\* the second application ran on a tree in which two rulesets of equal
\* specificity gave some element different values for one property, so that
\* the second run overwrote the stored value and then restored it
C5_Witness ==
  /\ pass = 2 /\ Finished
  /\ \E n \in Live(contents) : \E i, j \in 1..Len(sheet) :
       /\ i < j
       /\ Matches(n, sheet[i]) /\ Matches(n, sheet[j])
       /\ Declares(sheet[i], "color") /\ Declares(sheet[j], "color")
       /\ DeclaredValue(sheet[i], "color") # DeclaredValue(sheet[j], "color")
       /\ SpecValue(RuleSpecificity(n, sheet[i]))
            = SpecValue(RuleSpecificity(n, sheet[j]))
       /\ Get(styles[n], "color") = DeclaredValue(sheet[j], "color")
       /\ Get(first.styles[n], "color") = DeclaredValue(sheet[j], "color")

-----------------------------------------------------------------------------
(* Properties of insert *)

Candidates(key) == { i \in 1..Len(calls) : calls[i].key = key }

\* the last of the candidates of maximal specificity value
LastMaximal(key) ==
  CHOOSE i \in Candidates(key) :
    \A j \in Candidates(key) :
       \/ SpecValue(calls[j].spec) < SpecValue(calls[i].spec)
       \/ SpecValue(calls[j].spec) = SpecValue(calls[i].spec) /\ j <= i

LastMaximalStored ==
  /\ DOMAIN map = { calls[i].key : i \in 1..Len(calls) }
  /\ \A key \in DOMAIN map :
       map[key] = [value |-> calls[LastMaximal(key)].value,
                   spec |-> calls[LastMaximal(key)].spec]

\* what one insert call does to an entry that exists
OverwrittenIffNotLower ==
  LET call == calls'[Len(calls')] IN
  call.key \in DOMAIN map =>
    /\ SpecValue(call.spec) >= SpecValue(map[call.key].spec)
         => map'[call.key] = [value |-> call.value, spec |-> call.spec]
    /\ SpecValue(call.spec) < SpecValue(map[call.key].spec)
         => map'[call.key] = map[call.key]
    /\ SpecValue(map'[call.key].spec) >= SpecValue(map[call.key].spec)

-----------------------------------------------------------------------------
(* Notions the properties of the block width are stated with *)

\* calculate_block_width has been run on lbox
WidthStepTaken == stage # "width"
WidthAborted == stage = "panic in width"

\* a declared value that is a number of pixels
Numeric(v) == to_px(v, lbox.font_size) # None
PxOf(v) == to_px(v, lbox.font_size)[1]
\* the pixels a margin counts for in a sum, `auto` counting as 0
PxOrZero(v) == unwrap_or(to_px(v, lbox.font_size), 0)

DeclaredWidth == IF Has(lbox.style, "width") THEN Get(lbox.style, "width") ELSE Auto
\* `margin-left`, else the side of `margin`, else 0; likewise for padding
DeclaredMargin == get_margins(lbox.style)
DeclaredPadding == get_padding(lbox.style)
\* `border-<side>-width`, else the side of `border-width`, else the width
\* that `border-<side>` or `border` give, else 0
DeclaredBorder(side) ==
  IF Has(lbox.style, "border-" \o side \o "-width")
  THEN Get(lbox.style, "border-" \o side \o "-width")
  ELSE IF Has(lbox.style, "border-width")
            /\ to_border_sides(Get(lbox.style, "border-width")) # None
  THEN to_border_sides(Get(lbox.style, "border-width"))[1][side]
  ELSE get_border(lbox.style)[side].width

ContainerWidth == container.content.width

\* the declared horizontal borders and paddings are numbers of pixels
EdgesNumeric ==
  /\ Numeric(DeclaredBorder("left")) /\ Numeric(DeclaredBorder("right"))
  /\ Numeric(DeclaredPadding.left) /\ Numeric(DeclaredPadding.right)

BordersAndPaddings ==
  PxOf(DeclaredBorder("left")) + PxOf(DeclaredBorder("right"))
  + PxOf(DeclaredPadding.left) + PxOf(DeclaredPadding.right)

\* the resolved borders and paddings are the declared ones
EdgesAsDeclared ==
  /\ lbox.dimensions.border.left = PxOf(DeclaredBorder("left"))
  /\ lbox.dimensions.border.right = PxOf(DeclaredBorder("right"))
  /\ lbox.dimensions.padding.left = PxOf(DeclaredPadding.left)
  /\ lbox.dimensions.padding.right = PxOf(DeclaredPadding.right)

\* C6: with width undeclared or auto and numeric margins, borders and
\* paddings of sum S <= W, calculate_block_width does not abort, gives
\* content.width = W - S and leaves every edge at its declared value.
C6_AutoWidthFillsContainer ==
  LET S == PxOf(DeclaredMargin.left) + PxOf(DeclaredMargin.right)
           + BordersAndPaddings
  IN  ( /\ WidthStepTaken
        /\ DeclaredWidth = Auto
        /\ Numeric(DeclaredMargin.left) /\ Numeric(DeclaredMargin.right)
        /\ EdgesNumeric
        /\ S <= ContainerWidth )
      => /\ ~WidthAborted
         /\ lbox.dimensions.content.width = ContainerWidth - S
         /\ lbox.dimensions.margin.left = PxOf(DeclaredMargin.left)
         /\ lbox.dimensions.margin.right = PxOf(DeclaredMargin.right)
         /\ EdgesAsDeclared

\* C7: with a concrete width, both margins auto and width + borders +
\* paddings <= W, the two resolved margins are equal, each is
\* (W - width - borders - paddings) / 2, and content.width is the width.
C7_AutoMarginsCentre ==
  ( /\ WidthStepTaken
    /\ Numeric(DeclaredWidth)
    /\ DeclaredMargin.left = Auto /\ DeclaredMargin.right = Auto
    /\ EdgesNumeric
    /\ PxOf(DeclaredWidth) + BordersAndPaddings <= ContainerWidth )
  => /\ ~WidthAborted
     /\ lbox.dimensions.margin.left = lbox.dimensions.margin.right
     /\ 2 * lbox.dimensions.margin.left =
          ContainerWidth - PxOf(DeclaredWidth) - BordersAndPaddings
     /\ lbox.dimensions.content.width = PxOf(DeclaredWidth)

\* C8: with a concrete width and width + margins + borders + paddings > W,
\* content.width stays the declared width, an auto margin resolves as 0,
\* margin.left is otherwise unchanged and margin.right becomes its value
\* plus W - total.
C8_OverflowAbsorbedByMarginRight ==
  LET total == PxOf(DeclaredWidth) + PxOrZero(DeclaredMargin.left)
               + PxOrZero(DeclaredMargin.right) + BordersAndPaddings
  IN  ( /\ WidthStepTaken
        /\ Numeric(DeclaredWidth)
        /\ DeclaredMargin.left = Auto \/ Numeric(DeclaredMargin.left)
        /\ DeclaredMargin.right = Auto \/ Numeric(DeclaredMargin.right)
        /\ EdgesNumeric
        /\ total > ContainerWidth )
      => /\ ~WidthAborted
         /\ lbox.dimensions.content.width = PxOf(DeclaredWidth)
         /\ lbox.dimensions.margin.left = PxOrZero(DeclaredMargin.left)
         /\ lbox.dimensions.margin.right =
              PxOrZero(DeclaredMargin.right) + (ContainerWidth - total)

\* a value that holds whole pixels only
RECURSIVE Whole(_)
Whole(v) ==
  IF v.t = "Multiple" THEN \A i \in 1..Len(v.parts) : Whole(v.parts[i].v)
  ELSE Numeric(v) => PxOf(v) % 2 = 0

IntegerInputs ==
  /\ \A key \in DOMAIN lbox.style : Whole(Get(lbox.style, key))
  /\ container.content.width % 2 = 0
  /\ container.content.x % 2 = 0

HorizontalSum ==
  LET d == lbox.dimensions
  IN  d.margin.left + d.border.left + d.padding.left + d.content.width
      + d.padding.right + d.border.right + d.margin.right

\* C9: a non-text block box that layout completes on with whole-pixel inputs
\* has a margin box that spans the container's content box horizontally:
\* its horizontal edges and width sum to the container width, and
\* margin_box().x is the container's content.x.
C9_MarginBoxSpansContainer ==
  (stage = "done" /\ IntegerInputs)
  => /\ HorizontalSum = ContainerWidth
     /\ margin_box(lbox.dimensions).x = container.content.x

\* an over-constrained box was laid out: its concrete width and margins
\* exceed the container, and margin.right took the negative underflow
C9_Witness ==
  /\ stage = "done" /\ IntegerInputs
  /\ DeclaredWidth # Auto
  /\ DeclaredMargin.left # Auto /\ DeclaredMargin.right # Auto
  /\ PxOf(DeclaredMargin.right) > 0
  /\ lbox.dimensions.margin.right < 0
  /\ lbox.dimensions.border.left > 0 /\ lbox.dimensions.padding.left > 0
  /\ container.content.x > 0
  /\ HorizontalSum = ContainerWidth

-----------------------------------------------------------------------------
(* Notions the properties of create_layout are stated with *)

RECURSIVE Boxes(_)
\* the boxes of the tree below b, b included
Boxes(b) == {b} \cup UNION { Boxes(b.contents[i]) : i \in 1..Len(b.contents) }

RECURSIVE NumericLength(_)
\* a number or a length, or a shorthand made of them
NumericLength(v) ==
  IF v.t = "Multiple"
  THEN \A i \in 1..Len(v.parts) :
         \/ NumericLength(v.parts[i].v)
         \/ is_border_style(v.parts[i].v) \/ is_color(v.parts[i].v)
  ELSE v.t \in {"Number", "Length"}

\* every property but `display` holds numeric lengths, on every node
NumericLayoutProperties ==
  \A n \in LayoutNodes :
    \A key \in DOMAIN styles[n] \ {"display"} : NumericLength(Get(styles[n], key))

CreateLayoutReturned == stage = "done"
CreateLayoutEnded == stage \notin {"build", "layout"}

\* C10: on a Styled Tree whose layout properties are numeric lengths,
\* inline elements and text nodes included, create_layout does not abort
\* and every box of the tree it returns has its geometry computed.
C10_CreateLayoutCompletes ==
  (CreateLayoutEnded /\ NumericLayoutProperties)
  => /\ CreateLayoutReturned
     /\ \A b \in Boxes(lbox) : b.box_content_type = Normal => b.border # None

-----------------------------------------------------------------------------
(* Notions the properties of the laid-out tree are stated with *)

RECURSIVE MarginBoxHeights(_, _)
\* the sum of the margin-box heights of the first k boxes of cs
MarginBoxHeights(cs, k) ==
  IF k = 0 THEN 0
  ELSE MarginBoxHeights(cs, k - 1) + margin_box(cs[k].dimensions).height

MarginBoxTop(b) == margin_box(b.dimensions).y
MarginBoxBottom(b) == MarginBoxTop(b) + margin_box(b.dimensions).height

\* C11: in a laid-out tree the top of each child's margin box is the parent's
\* content.y plus the margin-box heights of the children before it, no two
\* sibling margin boxes overlap vertically, and the root's margin box has y = 0.
C11_SiblingsNeverOverlap ==
  CreateLayoutReturned =>
    /\ MarginBoxTop(lbox) = 0
    /\ \A b \in Boxes(lbox) : \A k \in 1..Len(b.contents) :
         /\ MarginBoxTop(b.contents[k]) =
              b.dimensions.content.y + MarginBoxHeights(b.contents, k - 1)
         /\ \A j \in 1..(k - 1) :
              MarginBoxBottom(b.contents[j]) <= MarginBoxTop(b.contents[k])

\* C11, amended: the same, where an earlier sibling's margin box is wholly
\* above a later one's whenever no margin box from the earlier one up to the
\* later one has a negative height.
C11_ChildrenStackBelowEachOther ==
  CreateLayoutReturned =>
    /\ MarginBoxTop(lbox) = 0
    /\ \A b \in Boxes(lbox) : \A k \in 1..Len(b.contents) :
         /\ MarginBoxTop(b.contents[k]) =
              b.dimensions.content.y + MarginBoxHeights(b.contents, k - 1)
         /\ \A j \in 1..(k - 1) :
              (\A m \in j..(k - 1) : margin_box(b.contents[m].dimensions).height >= 0)
              => MarginBoxBottom(b.contents[j]) <= MarginBoxTop(b.contents[k])

\* a laid-out root whose first child has a top margin and a child of its own,
\* and whose third child lies below two siblings of positive height
C11_Witness ==
  /\ CreateLayoutReturned
  /\ Len(lbox.contents) = 3
  /\ lbox.contents[1].dimensions.margin.top > 0
  /\ Len(lbox.contents[1].contents) = 1
  /\ margin_box(lbox.contents[1].contents[1].dimensions).height > 0
  /\ margin_box(lbox.contents[2].dimensions).height > 0
  /\ MarginBoxTop(lbox.contents[3]) > MarginBoxBottom(lbox.contents[1])

ChildrenHeight(b) == MarginBoxHeights(b.contents, Len(b.contents))

\* C12: in a laid-out tree a non-text box without a `height` declaration has
\* the sum of its children's final margin-box heights as content.height
\* (0 without children).
C12_AutoHeightIsChildrenSum ==
  CreateLayoutReturned =>
    \A b \in Boxes(lbox) :
      (b.box_content_type = Normal /\ ~Has(b.style, "height"))
      => b.dimensions.content.height = ChildrenHeight(b)

\* a laid-out root without `height` whose first child declares a height other
\* than the height of its own child, and which has a childless child too
C12_Witness ==
  /\ CreateLayoutReturned
  /\ ~Has(lbox.style, "height")
  /\ Len(lbox.contents) = 3
  /\ Has(lbox.contents[1].style, "height")
  /\ Len(lbox.contents[1].contents) = 1
  /\ lbox.contents[1].dimensions.content.height # ChildrenHeight(lbox.contents[1])
  /\ ChildrenHeight(lbox.contents[1]) > 0
  /\ lbox.contents[3].dimensions.content.height = 0
  /\ lbox.dimensions.content.height > lbox.contents[1].dimensions.content.height

\* C13: in a laid-out tree a box's content.height is its declared `height`
\* when that resolves to a length, and the height computed from its children
\* when `height` is undeclared or does not resolve, as the keyword auto.
C13_UnresolvableHeightIsChildrenSum ==
  CreateLayoutReturned =>
    \A b \in Boxes(lbox) :
      b.box_content_type = Normal =>
        b.dimensions.content.height =
          IF Has(b.style, "height")
               /\ to_px(Get(b.style, "height"), b.font_size) # None
          THEN to_px(Get(b.style, "height"), b.font_size)[1]
          ELSE ChildrenHeight(b)

IsTextBox(b) == b.box_content_type.t = "Text"

\* C14: in a laid-out tree every text box has zero margins, borders and
\* paddings on all four sides and the measured text height as its height,
\* whatever the enclosing element declares.
C14_TextBoxesCarryNoEdges ==
  CreateLayoutReturned =>
    \A b \in Boxes(lbox) :
      IsTextBox(b) =>
        /\ b.dimensions.margin = EdgeSizes(0, 0, 0, 0)
        /\ b.dimensions.border = EdgeSizes(0, 0, 0, 0)
        /\ b.dimensions.padding = EdgeSizes(0, 0, 0, 0)
        /\ b.dimensions.content.height = metrics[b.box_content_type.s].height

\* C15: in the tree create_layout returns, the font_size of every non-root
\* box follows from its own `font-size` and its parent's final font_size:
\* a Number gives itself, a Percentage or Em length is scaled by the parent's
\* final font_size, anything else gives the parent's final font_size.
C15_FontSizeFromParentsFinal ==
  CreateLayoutReturned =>
    \A b \in Boxes(lbox) : \A k \in 1..Len(b.contents) :
      ~IsTextBox(b.contents[k]) =>
        b.contents[k].font_size =
          calculate_font_size(b.contents[k].style, b.font_size)

-----------------------------------------------------------------------------
(* Notions the properties of selectors and specificity are stated with *)

\* the call of f has returned
Returned(f) == invocation.f = f /\ returned # None

\* the whitespace-separated words of an attribute of the element
WordsOf(a) ==
  IF a \in DOMAIN elements[1].attributes
  THEN { elements[1].attributes[a][i] :
           i \in DOMAIN elements[1].attributes[a] } \ {" "}
  ELSE {}

\* the attribute is there and is the one word w, nothing around it
IsWord(a, w) ==
  /\ a \in DOMAIN elements[1].attributes
  /\ Len(elements[1].attributes[a]) = 1
  /\ elements[1].attributes[a][1] = w

SimpleMatches(s) ==
  \/ s.k = "Type" /\ elements[1].name = s.v
  \/ s.k = "Universal"
  \/ s.k = "Class" /\ s.v \in WordsOf("class")
  \/ s.k = "ID" /\ IsWord("id", s.v)

RECURSIVE Constituents(_)
\* the simple selectors a selector is made of, left to right
Constituents(sel) ==
  CASE sel.kind = "Simple" -> <<sel.simple>>
    [] sel.kind = "Compound" -> sel.sels
    [] sel.kind = "Combinator" -> Constituents(sel.l) \o Constituents(sel.r)

HowMany(ss, kinds) == Cardinality({ i \in DOMAIN ss : ss[i].k \in kinds })

\* (attributes, ids, classes and pseudo-classes, types) among ss
Tally(ss) ==
  << HowMany(ss, {"Attribute"}), HowMany(ss, {"ID"}),
     HowMany(ss, {"Class", "PseudoClass"}), HowMany(ss, {"Type"}) >>

\* C16: does_rule_apply on a Simple selector is true exactly for a Type of
\* the element's tag name, for Universal, for a Class among the words of the
\* class attribute and for an ID that is the whole id attribute (never for
\* Attribute and PseudoClass); on a Combinator it is false
C16_SimpleSelectorMatching ==
  (Returned("does_rule_apply") /\ invocation.selector.kind # "Compound") =>
    returned[1] = (/\ invocation.selector.kind = "Simple"
                   /\ SimpleMatches(invocation.selector.simple))

\* a class found among several words
C16_Witness ==
  /\ Returned("does_rule_apply")
  /\ invocation.selector = Simple(Class("wide"))
  /\ elements[1].attributes = Attrs("class", <<"a", " ", "wide">>)
  /\ returned[1] = TRUE

C18_SpecificityIsCompositional ==
  Returned("Specificity::from") =>
    returned[1] = Tally(Constituents(invocation.selector))

\* a Combinator of a Combinator and a Compound
C18_Witness ==
  /\ Returned("Specificity::from")
  /\ invocation.selector.kind = "Combinator"
  /\ invocation.selector.l.kind = "Combinator"
  /\ invocation.selector.r.kind = "Compound"
  /\ returned[1] = <<0, 1, 1, 2>>

\* attribute * 1000 + id * 100 + class * 10 + type
value(s) == s[1] * 1000 + s[2] * 100 + s[3] * 10 + s[4]

\* s is larger than t in one counter and the same in the others
LargerInOne(s, t) ==
  \E i \in 1..4 : s[i] > t[i] /\ \A j \in (1..4) \ {i} : s[j] = t[j]

\* C19: s < t exactly when value(s) < value(t), a tuple larger in one counter
\* and the same in the others is strictly greater, and two tuples compare as
\* equal exactly when they are the same tuple
C19_OrderConsistentWithEquality ==
  Returned("cmp") =>
    /\ (returned[1].ordering = "Less") =
         (value(invocation.s) < value(invocation.t))
    /\ LargerInOne(invocation.s, invocation.t) =>
         returned[1].ordering = "Greater"
    /\ (returned[1].ordering = "Equal") = (invocation.s = invocation.t)
    /\ (returned[1].ordering = "Equal") = returned[1].equal

-----------------------------------------------------------------------------
(* Notions the properties of the built box tree are stated with *)

\* build_layout_tree has returned its tree and layout has not yet changed it
TreeBuilt == stage = "layout"

RECURSIVE Hosted(_, _)
\* the children of a box from the i-th on, those of an Anonymous child in
\* its place
Hosted(cs, i) ==
  IF i > Len(cs) THEN <<>>
  ELSE (IF cs[i].box_type = "Anonymous" THEN cs[i].contents ELSE <<cs[i]>>)
       \o Hosted(cs, i + 1)

\* box b is the box of node n alone
BoxOf(b, n) ==
  /\ b.box_type # "Anonymous"
  /\ b.box_type = BoxTypeOf(styles[n])
  /\ b.box_content_type =
       IF IsElement(n) THEN Normal ELSE TextContent(elements[n].name)

RECURSIVE Corresponds(_, _)
\* the tree of b has one non-anonymous box for each node below n, n
\* included, as parent and child and in the order the nodes are in
Corresponds(b, n) ==
  /\ BoxOf(b, n)
  /\ Len(Hosted(b.contents, 1)) = Len(contents[n])
  /\ \A i \in 1..Len(contents[n]) :
       Corresponds(Hosted(b.contents, 1)[i], contents[n][i])

\* every child of the Block box b is a Block box or an Anonymous box that
\* holds one whole run of inline boxes
RunsNested(b) ==
  \A i \in 1..Len(b.contents) :
    /\ b.contents[i].box_type # "Inline"
    /\ b.contents[i].box_type = "Anonymous" =>
         /\ Len(b.contents[i].contents) > 0
         /\ \A j \in 1..Len(b.contents[i].contents) :
              b.contents[i].contents[j].box_type = "Inline"
         /\ i > 1 => b.contents[i - 1].box_type # "Anonymous"

\* C20: the built tree has exactly one non-anonymous box for each element
\* and text node, in document order; in a Block box each maximal run of
\* consecutive inline children lies in one Anonymous box, so that no Block
\* box has two adjacent Anonymous children or an inline child of its own
C20_InlineRunsShareOneAnonymousBox ==
  TreeBuilt =>
    /\ Corresponds(lbox, 1)
    /\ \A b \in Boxes(lbox) : b.box_type = "Block" => RunsNested(b)

\* two inline children in a row share the Anonymous box, the block after
\* them stands beside it
C20_Witness ==
  /\ TreeBuilt
  /\ lbox.box_type = "Block"
  /\ Len(lbox.contents) = 2
  /\ lbox.contents[1].box_type = "Anonymous"
  /\ Len(lbox.contents[1].contents) = 2
  /\ lbox.contents[2].box_type = "Block"

-----------------------------------------------------------------------------
(* Notions the properties of pruning and of the matched specificity are *)
(* stated with *)

\* the rulesets of the sheet that match n and declare p
Declaring(n, p) ==
  { k \in 1..Len(sheet) : Matches(n, sheet[k]) /\ Declares(sheet[k], p) }

\* the one that wins under the specificity/tie rule: the last of those of
\* greatest specificity value
Winning(n, p) ==
  CHOOSE k \in Declaring(n, p) :
    \A o \in Declaring(n, p) :
       \/ SpecValue(RuleSpecificity(n, sheet[o]))
            < SpecValue(RuleSpecificity(n, sheet[k]))
       \/ /\ SpecValue(RuleSpecificity(n, sheet[o]))
               = SpecValue(RuleSpecificity(n, sheet[k]))
          /\ o <= k

\* the resolved display of n is none
ResolvesToNone(n) ==
  /\ Declaring(n, "display") # {}
  /\ DeclaredValue(sheet[Winning(n, "display")], "display") = Keyword("none")

\* C21: after apply_styles an element is absent from the tree if and only if
\* its resolved display, or that of one of its ancestors, is none; this holds
\* for the root as well
C21_AbsentIffDisplayNone ==
  (pass = 1 /\ Finished) =>
    \A n \in Nodes : IsElement(n) =>
      (n \notin Live(contents)
         <=> \E a \in {n} \cup Ancestors(n) : ResolvesToNone(a))


\* s is the greatest specificity among the selectors of r that match n
GreatestMatching(n, r, s) ==
  /\ \E i \in 1..Len(r.selectors) :
       does_rule_apply(n, r.selectors[i]) /\ s = Specificity(r.selectors[i])
  /\ \A i \in 1..Len(r.selectors) :
       does_rule_apply(n, r.selectors[i])
         => SpecValue(Specificity(r.selectors[i])) <= SpecValue(s)

\* no ancestor of n is matched by r, so nothing of r reaches n from above
NothingFromAbove(n, r) == \A a \in Ancestors(n) : ~Matches(a, r)

\* applying r inserts p at n: n has no entry for p of a greater specificity
Insertable(n, r, p) ==
  Has(styles[n], p) => \A s \in [1..4 -> 0..1] :
    GreatestMatching(n, r, s) => SpecValue(styles[n][p].spec) <= SpecValue(s)

\* C22: the specificity a ruleset is applied to a node with is the greatest
\* among those selectors of its list that match the node; when none matches,
\* the ruleset's own declarations leave the node's StyleMap as it is and
\* every element below is still tested for a match of its own
C22_SpecificityOfMatchingSelectorsOnly ==
  [][ next_rule <= Len(sheet) =>
        \A n \in Live(contents) :
          (IsElement(n) /\ NothingFromAbove(n, sheet[next_rule])) =>
            /\ ( /\ Matches(n, sheet[next_rule])
                 /\ ~HasDisplayNone(sheet[next_rule].declarations) ) =>
                 \A p \in Properties :
                   ( /\ Declares(sheet[next_rule], p)
                     /\ Insertable(n, sheet[next_rule], p) ) =>
                     /\ Has(styles'[n], p)
                     /\ GreatestMatching(n, sheet[next_rule], styles'[n][p].spec)
            /\ ~Matches(n, sheet[next_rule]) =>
                 /\ styles'[n] = styles[n]
                 /\ \A d \in Below(contents, n) :
                      ( /\ Matches(d, sheet[next_rule])
                        /\ \A a \in Ancestors(d) : ~Matches(a, sheet[next_rule]) ) =>
                        IF HasDisplayNone(sheet[next_rule].declarations)
                        THEN d \notin Live(contents')
                        ELSE \A p \in Properties :
                               Declares(sheet[next_rule], p) => Has(styles'[d], p)
    ]_vars

\* `div, #x` was applied to a tree whose root it does not match: the <div>
\* two levels down, which has no id, got width at (0,0,0,1)
C22_Witness ==
  /\ pass = 1 /\ Finished /\ Len(sheet) = 1
  /\ sheet[1].selectors = <<Simple(Type("div")), Simple(ID("x"))>>
  /\ ~Matches(1, sheet[1])
  /\ Matches(5, sheet[1])
  /\ 5 \in Live(contents)
  /\ Has(styles[5], "width")
  /\ styles[5]["width"].spec = <<0, 0, 0, 1>>

-----------------------------------------------------------------------------
(* Notions the properties of the resolved edges are stated with *)

NumericOrAuto(v) == v = Auto \/ Numeric(v)

\* container.width - sum(margin, border, padding, width) as the code takes
\* it for a box of width auto: each side cut to whole pixels, the borders
\* those get_border gives
UnderflowTaken ==
  as_f64(as_isize(ContainerWidth)
         - as_isize(PxOrZero(DeclaredMargin.left)
                    + PxOrZero(DeclaredMargin.right)
                    + PxOf(get_border(lbox.style).left.width)
                    + PxOf(get_border(lbox.style).right.width)
                    + PxOf(DeclaredPadding.left) + PxOf(DeclaredPadding.right)))

\* C23: with width auto, calculate_block_width resolves for every
\* combination of margin-left and margin-right, each a number or auto: it
\* does not abort, the margins are numbers, content.width is the underflow
\* when that is >= 0, and otherwise content.width is 0 and margin.right
\* takes the negative underflow
C23_AutoWidthResolvesWithAnyMargins ==
  ( /\ WidthStepTaken
    /\ DeclaredWidth = Auto
    /\ NumericOrAuto(DeclaredMargin.left)
    /\ NumericOrAuto(DeclaredMargin.right) )
  => /\ ~WidthAborted
     /\ IF UnderflowTaken >= 0
        THEN lbox.dimensions.content.width = UnderflowTaken
        ELSE /\ lbox.dimensions.content.width = 0
             /\ lbox.dimensions.margin.right =
                  as_f64(as_isize(PxOrZero(DeclaredMargin.right)))
                  + UnderflowTaken

PositionStepTaken == stage \notin {"width", "panic in width", "position"}
PositionAborted == stage = "panic in position"

Declared(names) == \E name \in names : Has(lbox.style, name)

\* C24: in calculate_block_position the vertical margins, borders and
\* paddings resolve to numbers, never to auto: when the margin and padding
\* values are numbers or auto, through the longhands or the shorthands, the
\* step does not abort, and an undeclared vertical edge is 0
C24_VerticalEdgesNeverAuto ==
  ( /\ PositionStepTaken
    /\ \A side \in {"top", "bottom", "left", "right"} :
         /\ NumericOrAuto(DeclaredMargin[side])
         /\ NumericOrAuto(DeclaredPadding[side]) )
  => /\ ~PositionAborted
     /\ \A side \in {"top", "bottom"} :
          /\ ~Declared({"margin", "margin-" \o side})
               => lbox.dimensions.margin[side] = 0
          /\ ~Declared({"padding", "padding-" \o side})
               => lbox.dimensions.padding[side] = 0
          /\ ~Declared({"border", "border-width", "border-" \o side,
                        "border-" \o side \o "-width"})
               => lbox.dimensions.border[side] = 0

\* C25: the border width layout uses for a side is border-<side>-width if
\* declared, else the side of border-width if declared, else what the border
\* shorthands give, else 0
C25_BorderWidthFallbackChain ==
  stage = "done" =>
    \A side \in {"left", "right", "top", "bottom"} :
      Numeric(DeclaredBorder(side)) =>
        lbox.dimensions.border[side] = PxOf(DeclaredBorder(side))

\* the box came out of calculate_block_width
WidthResolved == WidthStepTaken /\ ~WidthAborted

\* C26: the underflow is container.width minus the sum of the margins,
\* borders, paddings and width, with nothing rounded or cut: also for inputs
\* that are not whole pixels and for negative margins, the resolved
\* horizontal edges and the width sum to the container width
C26_UnderflowIsExact ==
  WidthResolved => HorizontalSum = ContainerWidth

RECURSIVE WidthsScaledBy(_, _)
\* in the tree of b, whose effective font size is size, every declared
\* numeric width came out in pixels at the font size of its own box: the
\* one its font-size declaration gives relative to its parent's
WidthsScaledBy(b, size) ==
  /\ (~IsTextBox(b) /\ Has(b.style, "width")
        /\ to_px(Get(b.style, "width"), size) # None)
       => b.dimensions.content.width = to_px(Get(b.style, "width"), size)[1]
  /\ \A k \in 1..Len(b.contents) :
       WidthsScaledBy(b.contents[k],
                      calculate_font_size(b.contents[k].style, size))

\* C27: Em and Percentage values are turned into pixels at the box's
\* effective font size, resolved from its own font-size declaration
\* relative to its parent's resolved one: font-size: 20px with width: 2em
\* gives content.width = 40 under any parent
C27_LengthsScaledByOwnFontSize ==
  CreateLayoutReturned =>
    WidthsScaledBy(lbox, calculate_font_size(lbox.style, DefaultFontSize))

-----------------------------------------------------------------------------
(* Notions the properties of inheritance are stated with *)

\* ruleset r reaches n by inheritance alone, from the one ancestor a
InheritedFrom(n, a, r) ==
  /\ a \in Ancestors(n)
  /\ Matches(a, r)
  /\ ~Matches(n, r)
  /\ \A b \in Ancestors(n) \ {a} : ~Matches(b, r)

\* ruleset r reaches n by matching it, and not from above
DirectOnly(n, r) == Matches(n, r) /\ \A b \in Ancestors(n) : ~Matches(b, r)

Entry(r, p, spec) == [value |-> DeclaredValue(r, p), spec |-> spec]

C29_TextNodesInherit ==
  (pass = 1 /\ Finished) =>
    \A n \in Live(contents) : \A k \in 1..Len(sheet) :
      ( /\ ~IsElement(n)
        /\ ~HasDisplayNone(sheet[k].declarations)
        /\ Declares(sheet[k], "color")
        /\ \E a \in Ancestors(n) : Matches(a, sheet[k]) )
      => Has(styles[n], "color")

-----------------------------------------------------------------------------
(* Notions the property of colour interpolation is stated with *)

ChannelNames == {"r", "g", "b", "a"}

Between(x, a, b) == (a <= x /\ x <= b) \/ (b <= x /\ x <= a)

\* what interpolate_val takes away from the larger channel value
TakenAway(from, to, fac) ==
  scaled(IF from < to THEN to - from ELSE from - to, fac)

\* C30: interpolate_color(from, to, fac) is `to` when fac = 1.0 and `from`
\* when fac = 0.0, in every channel, whichever of the two channel values is
\* the greater; every result lies between the two channel values and no u8
\* subtraction underflows
C30_InterpolationEndpoints ==
  Returned("interpolate_color") =>
    /\ invocation.fac = 2 => returned[1] = invocation.to
    /\ invocation.fac = 0 => returned[1] = invocation.from
    /\ \A c \in ChannelNames :
         /\ Between(returned[1][c], invocation.from[c], invocation.to[c])
         /\ TakenAway(invocation.from[c], invocation.to[c], invocation.fac)
              <= IF invocation.from[c] < invocation.to[c]
                 THEN invocation.to[c] ELSE invocation.from[c]
=============================================================================
